---- MODULE Spec2Model ----
(***************************************************************************)
(* ck: scan / restore / list commands of src/src/index.ts.                 *)
(*                                                                         *)
(* Strings that the code inspects (paths, import specifiers, store ids)    *)
(* are sequences of one-character strings, so that endsWith, startsWith,   *)
(* includes, lastIndexOf, slice and the keep regex are computed as the     *)
(* code computes them.  Source text is a sequence of UTF-16 code units     *)
(* (numbers), bytes are numbers 0..255, and a base64 string is a sequence  *)
(* of sextet values 0..63 with Pad standing for "=".                       *)
(***************************************************************************)
EXTENDS Integers, Sequences, FiniteSets, TLC

\* ------------------------------------------------------------------ bounds
\* scans that one behaviour may start
MaxScans == 1
\* seconds that may pass during the store calls of one behaviour when the
\* store is slow
MaxTicks == 1

\* ------------------------------------------------------- string primitives
\* the disk entry of a path with no file: a sequence, as texts are, that no
\* text equals (code units are 0..65535)
Absent == <<-1>>

RECURSIVE Flatten(_)
Flatten(ss) == IF ss = <<>> THEN <<>> ELSE Head(ss) \o Flatten(Tail(ss))

\* s.slice(from) with a 0-based index, as JavaScript counts
SliceFrom(s, from) == SubSeq(s, from + 1, Len(s))

StartsWith(s, pre) ==
  /\ Len(pre) <= Len(s)
  /\ SubSeq(s, 1, Len(pre)) = pre

EndsWith(s, suf) ==
  /\ Len(suf) <= Len(s)
  /\ SubSeq(s, Len(s) - Len(suf) + 1, Len(s)) = suf

\* 0-based positions at which sub occurs in s
Occurrences(s, sub) ==
  { k \in 0..(Len(s) - Len(sub)) : SubSeq(s, k + 1, k + Len(sub)) = sub }

Includes(s, sub) == Occurrences(s, sub) # {}

\* s.lastIndexOf(sub): -1 when sub does not occur
LastIndexOf(s, sub) ==
  IF Occurrences(s, sub) = {} THEN -1
  ELSE CHOOSE k \in Occurrences(s, sub) : \A m \in Occurrences(s, sub) : m <= k

\* s.replace(/\\/g, "/")
ReplaceBackslashes(s) == [k \in 1..Len(s) |-> IF s[k] = "\\" THEN "/" ELSE s[k]]

\* ts-morph Directory.getPath() of the file's directory: the path up to, and
\* without, its last "/"
DirPath(p) == SubSeq(p, 1, LastIndexOf(p, <<"/">>))

\* ------------------------------------------------------------ text codec
Pad == 64
Replacement == 65533

IsHigh(u) == u >= 55296 /\ u <= 56319
IsLow(u) == u >= 56320 /\ u <= 57343

\* UTF-8 bytes of one code point
Utf8OfCodePoint(c) ==
  IF c < 128 THEN <<c>>
  ELSE IF c < 2048 THEN <<192 + (c \div 64), 128 + (c % 64)>>
  ELSE IF c < 65536
    THEN <<224 + (c \div 4096), 128 + ((c \div 64) % 64), 128 + (c % 64)>>
  ELSE <<240 + (c \div 262144), 128 + ((c \div 4096) % 64),
         128 + ((c \div 64) % 64), 128 + (c % 64)>>

\* Buffer.from(text, "utf8"): a surrogate pair is one code point, a lone
\* surrogate is written as U+FFFD
RECURSIVE Utf8Encode(_)
Utf8Encode(t) ==
  IF t = <<>> THEN <<>>
  ELSE IF IsHigh(t[1]) /\ Len(t) >= 2 /\ IsLow(t[2])
    THEN Utf8OfCodePoint(65536 + (t[1] - 55296) * 1024 + (t[2] - 56320))
         \o Utf8Encode(SubSeq(t, 3, Len(t)))
  ELSE IF IsHigh(t[1]) \/ IsLow(t[1])
    THEN Utf8OfCodePoint(Replacement) \o Utf8Encode(Tail(t))
  ELSE Utf8OfCodePoint(t[1]) \o Utf8Encode(Tail(t))

IsCont(b) == b >= 128 /\ b <= 191

\* UTF-16 code units of one code point
Utf16OfCodePoint(c) ==
  IF c < 65536 THEN <<c>>
  ELSE <<55296 + ((c - 65536) \div 1024), 56320 + ((c - 65536) % 1024)>>

\* buffer.toString("utf-8"): well-formed sequences decode to their code
\* point; a byte that starts no well-formed sequence decodes to U+FFFD
RECURSIVE Utf8Decode(_)
Utf8Decode(b) ==
  IF b = <<>> THEN <<>>
  ELSE IF b[1] < 128 THEN <<b[1]>> \o Utf8Decode(Tail(b))
  ELSE IF b[1] >= 194 /\ b[1] <= 223 /\ Len(b) >= 2 /\ IsCont(b[2])
    THEN <<(b[1] - 192) * 64 + (b[2] - 128)>> \o Utf8Decode(SubSeq(b, 3, Len(b)))
  ELSE IF /\ b[1] >= 224 /\ b[1] <= 239 /\ Len(b) >= 3
          /\ IsCont(b[2]) /\ IsCont(b[3])
          /\ (b[1] - 224) * 4096 + (b[2] - 128) * 64 + (b[3] - 128) >= 2048
          /\ ~ IsHigh((b[1] - 224) * 4096 + (b[2] - 128) * 64 + (b[3] - 128))
          /\ ~ IsLow((b[1] - 224) * 4096 + (b[2] - 128) * 64 + (b[3] - 128))
    THEN <<(b[1] - 224) * 4096 + (b[2] - 128) * 64 + (b[3] - 128)>>
         \o Utf8Decode(SubSeq(b, 4, Len(b)))
  ELSE IF /\ b[1] >= 240 /\ b[1] <= 244 /\ Len(b) >= 4
          /\ IsCont(b[2]) /\ IsCont(b[3]) /\ IsCont(b[4])
          /\ (b[1] - 240) * 262144 + (b[2] - 128) * 4096
               + (b[3] - 128) * 64 + (b[4] - 128) >= 65536
          /\ (b[1] - 240) * 262144 + (b[2] - 128) * 4096
               + (b[3] - 128) * 64 + (b[4] - 128) <= 1114111
    THEN Utf16OfCodePoint((b[1] - 240) * 262144 + (b[2] - 128) * 4096
                          + (b[3] - 128) * 64 + (b[4] - 128))
         \o Utf8Decode(SubSeq(b, 5, Len(b)))
  ELSE <<Replacement>> \o Utf8Decode(Tail(b))

\* buffer.toString("base64"): three bytes make four sextets, a tail of one
\* or two bytes is padded with "="
RECURSIVE Base64Encode(_)
Base64Encode(b) ==
  IF b = <<>> THEN <<>>
  ELSE IF Len(b) = 1
    THEN <<b[1] \div 4, (b[1] % 4) * 16, Pad, Pad>>
  ELSE IF Len(b) = 2
    THEN <<b[1] \div 4, (b[1] % 4) * 16 + (b[2] \div 16), (b[2] % 16) * 4, Pad>>
  ELSE <<b[1] \div 4, (b[1] % 4) * 16 + (b[2] \div 16),
         (b[2] % 16) * 4 + (b[3] \div 64), b[3] % 64>>
       \o Base64Encode(SubSeq(b, 4, Len(b)))

\* Buffer.from(s, "base64"): decoding stops at the first "="; four sextets
\* make three bytes, a tail of two or three sextets makes one or two bytes
RECURSIVE Base64Sextets(_)
Base64Sextets(s) ==
  IF s = <<>> \/ s[1] = Pad THEN <<>> ELSE <<s[1]>> \o Base64Sextets(Tail(s))

RECURSIVE SextetsToBytes(_)
SextetsToBytes(x) ==
  IF Len(x) < 2 THEN <<>>
  ELSE IF Len(x) = 2 THEN <<x[1] * 4 + (x[2] \div 16)>>
  ELSE IF Len(x) = 3
    THEN <<x[1] * 4 + (x[2] \div 16), (x[2] % 16) * 16 + (x[3] \div 4)>>
  ELSE <<x[1] * 4 + (x[2] \div 16), (x[2] % 16) * 16 + (x[3] \div 4),
         (x[3] % 4) * 64 + x[4]>>
       \o SextetsToBytes(SubSeq(x, 5, Len(x)))

Base64Decode(s) == SextetsToBytes(Base64Sextets(s))

toB64(text) == Base64Encode(Utf8Encode(text))

\* C9 mutant: the bytes are read as latin1, one code unit per byte
fromB64Latin1(b64) == Base64Decode(b64)

\* Buffer.from(item.content.base64, "base64").toString("utf-8")
fromB64(b64) == Utf8Decode(Base64Decode(b64))

\* ------------------------------------------------------------ the project
\* null as the value of a name or an option
Null == "null"
\* undefined where a file or a string is expected
Undefined == <<>>

Sl == <<"/">>
TsExt == <<".", "t", "s">>
\* process.cwd(), the project root that holds tsconfig.json
Cwd == <<"/", "p">>
\* --src-dir and its default
srcDir == <<"s", "r", "c">>
SrcRoot == Flatten(<<Cwd, Sl, srcDir, Sl>>)

IndexTs == Flatten(<<SrcRoot, <<"i", "n", "d", "e", "x">>, TsExt>>)
UsedTs == Flatten(<<SrcRoot, <<"u", "s", "e", "d">>, TsExt>>)
DeadTs == Flatten(<<SrcRoot, <<"d", "e", "a", "d">>, TsExt>>)
HiddenJs == Flatten(<<SrcRoot, <<".", "x", ".", "j", "s">>>>)
ATestTs == Flatten(<<SrcRoot, <<"a", ".", "t", "e", "s", "t">>, TsExt>>)
TypesDTs == Flatten(<<SrcRoot, <<"t", ".", "d">>, TsExt>>)
MockTs == Flatten(<<SrcRoot, <<"_", "_", "m", "o", "c", "k", "s", "_", "_">>, Sl,
                    <<"m">>, TsExt>>)
StoriesTsx == Flatten(<<SrcRoot, <<"c", ".", "s", "t", "o", "r", "i", "e", "s">>,
                        TsExt, <<"x">>>>)
ConfigJs == Flatten(<<SrcRoot, <<"b", ".", "c", "o", "n", "f", "i", "g", ".", "j", "s">>>>)
\* a declaration file that .x.js imports and that imports .x.js back
HiddenDTs == Flatten(<<SrcRoot, <<".", "y", ".", "d">>, TsExt>>)
ToolTs == Flatten(<<Cwd, Sl, <<"t">>, TsExt>>)
\* a destination of restore --output, outside the files of tsconfig.json
OutTs == Flatten(<<Cwd, Sl, <<"o", "u", "t">>, Sl, <<"r">>, TsExt>>)

\* the files tsconfig.json includes, in the order project.getSourceFiles()
\* lists them
ProjectOrder ==
  <<IndexTs, UsedTs, DeadTs, HiddenJs, ATestTs, TypesDTs, MockTs, StoriesTsx,
    ConfigJs, HiddenDTs, ToolTs>>
ProjectPaths == { ProjectOrder[k] : k \in 1..Len(ProjectOrder) }
AllPaths == ProjectPaths \cup {OutTs}

\* the text of each file as first written to disk (UTF-16 code units):
\* "A" 65, e-acute 233, euro sign 8364, U+1F600 as the pair 55357 56832
OriginalText(p) ==
  IF p = IndexTs THEN <<65, 233>>
  ELSE IF p = UsedTs THEN <<65>>
  ELSE IF p = DeadTs THEN <<233, 55357, 56832>>
  ELSE IF p = HiddenJs THEN <<8364, 65>>
  ELSE IF p = ATestTs THEN <<>>
  ELSE <<65, 65>>

\* import specifiers
SpecUsed == <<".", "/", "u", "s", "e", "d">>
SpecHidden == <<".", "x">>
SpecHiddenJs == <<".", "x", ".", "j", "s">>
SpecDead == <<".", "/", "d", "e", "a", "d", ".", "t", "s">>
SpecReact == <<"r", "e", "a", "c", "t">>
SpecHiddenD == <<".", "y", ".", "d">>

\* sf.getImportDeclarations() mapped to getModuleSpecifierValue(), in
\* source order (what the parser reports for the file)
ImportSpecifiers(p) ==
  IF p = IndexTs THEN <<SpecUsed, SpecHidden, SpecReact, SpecHiddenJs>>
  ELSE IF p = HiddenJs THEN <<SpecHidden, SpecHiddenD>>
  ELSE IF p = HiddenDTs THEN <<SpecHidden>>
  ELSE IF p = ATestTs THEN <<SpecDead>>
  ELSE IF p = ToolTs THEN <<SpecUsed>>
  ELSE <<>>

\* the declarations the parser finds: owner is the file that contains the
\* declaration, exportedBy the files whose getExportedDeclarations() lists
\* it (index.ts re-exports used.ts with "export * from"), refs the length
\* of findReferences().flatMap(r => r.getReferences())
Declarations ==
  << [name |-> "main", owner |-> IndexTs, kind |-> "function", exported |-> TRUE,
      refs |-> 2, exportedBy |-> {IndexTs}, text |-> <<65>>,
      startLine |-> 1, endLine |-> 2],
     [name |-> "unusedFunction", owner |-> IndexTs, kind |-> "function",
      exported |-> TRUE, refs |-> 1, exportedBy |-> {IndexTs}, text |-> <<233>>,
      startLine |-> 3, endLine |-> 3],
     [name |-> "limit", owner |-> UsedTs, kind |-> "variable", exported |-> TRUE,
      refs |-> 1, exportedBy |-> {IndexTs, UsedTs}, text |-> <<8364>>,
      startLine |-> 1, endLine |-> 1],
     [name |-> "poly", owner |-> HiddenJs, kind |-> "function", exported |-> FALSE,
      refs |-> 1, exportedBy |-> {}, text |-> <<65, 65, 65>>,
      startLine |-> 2, endLine |-> 4],
     [name |-> "run", owner |-> DeadTs, kind |-> "method", exported |-> FALSE,
      refs |-> 1, exportedBy |-> {}, text |-> <<55357, 56832, 65>>,
      startLine |-> 2, endLine |-> 2],
     [name |-> "Helper", owner |-> UsedTs, kind |-> "class", exported |-> FALSE,
      refs |-> 2, exportedBy |-> {}, text |-> <<65, 65>>,
      startLine |-> 3, endLine |-> 5],
     [name |-> "count", owner |-> IndexTs, kind |-> "variable", exported |-> FALSE,
      refs |-> 3, exportedBy |-> {}, text |-> <<65>>,
      startLine |-> 5, endLine |-> 5] >>

\* --------------------------------------------------------------- helpers
norm(p) == ReplaceBackslashes(p)

rel(p, dir) ==
  IF LastIndexOf(norm(p), Flatten(<<Sl, dir, Sl>>)) >= 0
  THEN SliceFrom(norm(p), LastIndexOf(norm(p), Flatten(<<Sl, dir, Sl>>)) + 1)
  ELSE norm(p)

\* the patterns of the regex; "tsx?" matches wherever ".ts" does, and the
\* regex is not anchored, so each alternative is a substring test
KeepPatterns ==
  { <<".", "d", ".", "t", "s">>,
    <<".", "t", "y", "p", "e", "s", ".", "t", "s">>,
    <<".", "s", "t", "o", "r", "i", "e", "s", ".", "t", "s">>,
    <<".", "t", "e", "s", "t", ".", "t", "s">>,
    <<"_", "_", "m", "o", "c", "k", "s", "_", "_">>,
    <<".", "c", "o", "n", "f", "i", "g", ".", "t", "s">>,
    <<".", "c", "o", "n", "f", "i", "g", ".", "j", "s">> }

isDefinitelyKeep(p) == \E pat \in KeepPatterns : Includes(norm(p), pat)

TryPaths(spec) ==
  << spec,
     spec \o <<".", "t", "s">>,
     spec \o <<".", "t", "s", "x">>,
     spec \o <<".", "j", "s">>,
     spec \o <<".", "j", "s", "x">>,
     spec \o <<"/", "i", "n", "d", "e", "x", ".", "t", "s">>,
     spec \o <<"/", "i", "n", "d", "e", "x", ".", "t", "s", "x">> >>

\* the (try path, map entry) pairs that match, by position; map is the
\* sequence of files in the insertion order of sourceByPath, whose key for
\* a file f is norm(f)
ResolveHits(from, spec, map) ==
  { h \in (1..Len(TryPaths(spec))) \X (1..Len(map)) :
      EndsWith(norm(map[h[2]]),
               ReplaceBackslashes(Flatten(<<DirPath(from), Sl, TryPaths(spec)[h[1]]>>))) }

\* the code returns the first match of the outer loop over the try paths,
\* and within it the first map entry; Undefined when nothing matches
resolveImport(from, spec, map) ==
  IF (StartsWith(spec, <<".">>) \/ StartsWith(spec, <<"/">>))
     /\ ResolveHits(from, spec, map) # {}
  THEN map[(CHOOSE h \in ResolveHits(from, spec, map) :
              \A g \in ResolveHits(from, spec, map) :
                 h[1] < g[1] \/ (h[1] = g[1] /\ h[2] <= g[2]))[2]]
  ELSE Undefined

getLanguage(p) ==
  IF EndsWith(p, <<".", "t", "s">>) \/ EndsWith(p, <<".", "t", "s", "x">>)
  THEN "ts" ELSE "js"

RECURSIVE SelectPaths(_, _)
\* Array.prototype.filter over a sequence of paths, keep is a set of paths
SelectPaths(seq, keep) ==
  IF seq = <<>> THEN <<>>
  ELSE IF Head(seq) \in keep THEN <<Head(seq)>> \o SelectPaths(Tail(seq), keep)
  ELSE SelectPaths(Tail(seq), keep)

Range(seq) == { seq[k] : k \in 1..Len(seq) }

EntryCandidates(dir) ==
  << Flatten(<<dir, <<"/", "i", "n", "d", "e", "x", ".", "t", "s">>>>),
     Flatten(<<dir, <<"/", "i", "n", "d", "e", "x", ".", "t", "s", "x">>>>),
     Flatten(<<dir, <<"/", "m", "a", "i", "n", ".", "t", "s">>>>),
     Flatten(<<dir, <<"/", "m", "a", "i", "n", ".", "t", "s", "x">>>>),
     Flatten(<<dir, <<"/", "a", "p", "p", ".", "t", "s", "x">>>>),
     Flatten(<<dir, <<"/", "A", "p", "p", ".", "t", "s", "x">>>>) >>

defaultEntrypoints(fs, dir) ==
  SelectPaths(EntryCandidates(dir),
              { c \in Range(EntryCandidates(dir)) :
                  \E f \in Range(fs) : rel(f, dir) = c })

\* project.getSourceFile(p) for a path with a directory part: the file of
\* the project at that path, taken relative to the working directory
getSourceFile(loaded, p) ==
  IF (IF StartsWith(p, Sl) THEN p ELSE Flatten(<<Cwd, Sl, p>>)) \in loaded
  THEN (IF StartsWith(p, Sl) THEN p ELSE Flatten(<<Cwd, Sl, p>>))
  ELSE Undefined

\* C14 mutant: the entries that do not resolve are not filtered out
EntryFilesUnfiltered(loaded, entry) ==
  [k \in 1..Len(entry) |-> getSourceFile(loaded, entry[k])]

RECURSIVE EntryFiles(_, _)
\* .map(p => project.getSourceFile(p)).filter(Boolean)
EntryFiles(loaded, entry) ==
  IF entry = <<>> THEN <<>>
  ELSE IF getSourceFile(loaded, Head(entry)) = Undefined
    THEN EntryFiles(loaded, Tail(entry))
  ELSE <<getSourceFile(loaded, Head(entry))>> \o EntryFiles(loaded, Tail(entry))

\* -------------------------------------------------------- usage detector
\* C12 mutant: the declaration site is not counted
IsUnusedStrict(refs) == refs < 1

\* "refs.length <= 1"
IsUnused(refs) == refs <= 1

\* the first loop: the declarations sf.getExportedDeclarations() lists
ExportedHit(d, sf, loaded) ==
  /\ d.owner \in loaded
  /\ sf \in d.exportedBy
  /\ d.kind \in {"function", "class", "variable"}
  /\ IsUnused(d.refs)

\* the second loop: sf.forEachDescendant
LocalHit(d, sf) ==
  /\ d.owner = sf
  /\ \/ d.kind = "function" /\ ~ d.exported
     \/ d.kind = "class" /\ ~ d.exported
     \/ d.kind = "variable" /\ ~ d.exported
     \/ d.kind = "method"
  /\ IsUnused(d.refs)

\* node is the position of the declaration in Declarations
Finding(k, sf, confidence) ==
  [node |-> k, file |-> sf, type |-> Declarations[k].kind,
   name |-> Declarations[k].name, reason |-> "no_refs", confidence |-> confidence]

RECURSIVE ExportedFindings(_, _, _)
ExportedFindings(k, sf, loaded) ==
  IF k > Len(Declarations) THEN <<>>
  ELSE (IF ExportedHit(Declarations[k], sf, loaded)
        THEN <<Finding(k, sf, 95)>> ELSE <<>>)
       \o ExportedFindings(k + 1, sf, loaded)

RECURSIVE LocalFindings(_, _)
LocalFindings(k, sf) ==
  IF k > Len(Declarations) THEN <<>>
  ELSE (IF LocalHit(Declarations[k], sf) THEN <<Finding(k, sf, 90)>> ELSE <<>>)
       \o LocalFindings(k + 1, sf)

\* the files the symbol loop visits: "for (const sf of files)"
SymbolScanFiles(fs, reach) == fs

RECURSIVE FindingsOf(_, _)
FindingsOf(fs, loaded) ==
  IF fs = <<>> THEN <<>>
  ELSE ExportedFindings(1, Head(fs), loaded) \o LocalFindings(1, Head(fs))
       \o FindingsOf(Tail(fs), loaded)

\* C10 mutant: the filter does not test isDefinitelyKeep
UnreachableNoKeep(fs, reach) ==
  SelectPaths(fs, { f \in Range(fs) : norm(f) \notin reach })

\* files.filter(f => !reachable.has(norm(f)) && !isDefinitelyKeep(f))
Unreachable(fs, reach) ==
  SelectPaths(fs, { f \in Range(fs) : norm(f) \notin reach /\ ~ isDefinitelyKeep(f) })

\* C13 mutant: the traversal never takes a popped file for visited
NeverReached(reach, p) == FALSE

\* "if (reachable.has(p)) continue"
AlreadyReached(reach, p) == p \in reach

RECURSIVE Pushes(_, _, _, _)
\* the files the import loop of one traversal step pushes, in order
Pushes(sf, specs, reach, map) ==
  IF specs = <<>> THEN <<>>
  ELSE (IF /\ resolveImport(sf, Head(specs), map) # Undefined
           /\ norm(resolveImport(sf, Head(specs), map)) \notin reach
        THEN <<resolveImport(sf, Head(specs), map)>> ELSE <<>>)
       \o Pushes(sf, Tail(specs), reach, map)

\* ---------------------------------------------------------------- store
HexDigits == <<"0", "1", "2", "3", "4", "5", "6", "7", "8", "9",
               "a", "b", "c", "d", "e", "f">>
HexChars == Range(HexDigits) \cup {"A", "B", "C", "D", "E", "F"}

\* the 24 characters of the n-th identifier the store assigns
IdOf(n) ==
  [k \in 1..24 |-> IF k = 24 THEN HexDigits[(n % 16) + 1]
                   ELSE IF k = 23 THEN HexDigits[((n \div 16) % 16) + 1]
                   ELSE "0"]

\* "nonexistent-id"
NonexistentId ==
  <<"n", "o", "n", "e", "x", "i", "s", "t", "e", "n", "t", "-", "i", "d">>

\* new ObjectId(id) accepts a string of 24 hexadecimal characters and
\* throws on any other string the commands are given here
ObjectIdThrows(id) == ~ (Len(id) = 24 /\ \A k \in 1..24 : id[k] \in HexChars)

LowerHex(c) ==
  IF c = "A" THEN "a" ELSE IF c = "B" THEN "b" ELSE IF c = "C" THEN "c"
  ELSE IF c = "D" THEN "d" ELSE IF c = "E" THEN "e" ELSE IF c = "F" THEN "f"
  ELSE c

\* the identifier value of a well-formed string
ObjectId(id) == [k \in 1..Len(id) |-> LowerHex(id[k])]

\* col.findOne({ _id }): the records with that identifier (none or one)
findOne(records, id) == { r \in records : r._id = id }

\* "1000 * 60 * 60 * 24 * 90" ms: ninety days, here in seconds, the unit of
\* the clock (ninety days in ms exceed the integers of the checker)
TtlSeconds == 60 * 60 * 24 * 90

repo == "local"
commit == "unknown"

toRange(k) ==
  [start |-> [line |-> Declarations[k].startLine, col |-> 0],
   end |-> [line |-> Declarations[k].endLine, col |-> 0]]

\* the file record of the first loop
FileItem(sf, text, createdAt, expiresAt) ==
  [createdAt |-> createdAt, expiresAt |-> expiresAt, repo |-> repo,
   commit |-> commit, language |-> getLanguage(sf), type |-> "file",
   name |-> Null, path |-> rel(sf, srcDir), reason |-> "unreachable_file",
   confidence |-> 98, references |-> <<>>,
   content |-> [kind |-> "text", base64 |-> toB64(text)],
   note |-> "ck unreachable file"]

\* the symbol record of the second loop
SymbolItem(u, createdAt, expiresAt) ==
  [createdAt |-> createdAt, expiresAt |-> expiresAt, repo |-> repo,
   commit |-> commit, language |-> getLanguage(u.file), type |-> u.type,
   name |-> u.name, path |-> rel(u.file, srcDir), range |-> toRange(u.node),
   reason |-> u.reason, confidence |-> u.confidence, references |-> <<>>,
   content |-> [kind |-> "text", base64 |-> toB64(Declarations[u.node].text)],
   note |-> "ck unused symbol"]

\* the document insertOne stores: the item and the identifier it assigns
Stored(item, id) == [k \in DOMAIN item \cup {"_id"} |->
                       IF k = "_id" THEN id ELSE item[k]]

\* "if (u.confidence < opts.confidence) continue"
BelowThreshold(confidence, threshold) == confidence < threshold

\* ----------------------------------------------------------------- state
VARIABLES
  disk,           \* path -> text of the file, or Absent
  store,          \* the documents of collection ck_items
  nextId,         \* the number of the next identifier the store assigns
  now,            \* the clock, in seconds
  ticks,          \* seconds the store calls may still take
  scans,          \* scans started
  pc,             \* where the running command is
  opts,           \* its options
  conn,           \* its MongoClient: "none", "open" or "closed"
  project,        \* loaded source file -> its text in memory
  files,          \* the source files under srcDir, in order
  stack,          \* the traversal stack, top last
  reachable,      \* the reachable set
  adds,           \* reachable.add calls of the traversal
  unreachable,    \* the unreachable files, in order
  unusedSymbols,  \* the symbol findings, in order
  cursor,         \* position of the running loop
  ttl,            \* the expiry date computed before the loops
  archivedCount,
  found,          \* the result of findOne: <<>> or <<item>>
  log             \* what the command reported

vars == <<disk, store, nextId, now, ticks, scans, pc, opts, conn, project, files,
          stack, reachable, adds, unreachable, unusedSymbols, cursor, ttl,
          archivedCount, found, log>>

\* where a process has ended: after its last statement, in process.exit(1),
\* or in a rejection nothing handles
Ended == {"done", "exited", "crashed"}

NoOpts == [cmd |-> "none"]

\* nothing reported yet: inserted are the identifiers printed after "->",
\* deleted the files reported as deleted, saved the files saveSync wrote,
\* written the file restore wrote, restored what restore decoded, items what
\* list printed, uncaught the error that ended the process
EmptyLog ==
  [inserted |-> <<>>, deleted |-> {}, saved |-> {}, written |-> {},
   notFound |-> FALSE, missingUri |-> FALSE, restored |-> <<>>, items |-> <<>>,
   listed |-> FALSE, finished |-> FALSE, uncaught |-> "none"]

\* before the first command: the project on disk, an empty collection
Start(slack) ==
  /\ disk = [p \in AllPaths |-> IF p \in ProjectPaths THEN OriginalText(p) ELSE Absent]
  /\ store = {}
  /\ nextId = 1
  /\ now = 0
  /\ ticks = slack
  /\ scans = 0
  /\ pc = "idle"
  /\ opts = NoOpts
  /\ conn = "none"
  /\ project = <<>>
  /\ files = <<>>
  /\ stack = <<>>
  /\ reachable = {}
  /\ adds = 0
  /\ unreachable = <<>>
  /\ unusedSymbols = <<>>
  /\ cursor = 0
  /\ ttl = 0
  /\ archivedCount = 0
  /\ found = <<>>
  /\ log = EmptyLog

\* a store that answers within the second
Init == Start(0)

\* a store whose calls may take a second
InitSlowStore == Start(MaxTicks)

\* a new process: nothing of the previous command is left but the disk, the
\* store and the clock
NewProcess(o) ==
  /\ opts' = o
  /\ reachable' = {}
  /\ adds' = 0
  /\ unreachable' = <<>>
  /\ unusedSymbols' = <<>>
  /\ cursor' = 0
  /\ ttl' = 0
  /\ archivedCount' = 0
  /\ found' = <<>>

\* the time an awaited store call may take
Elapse ==
  \E d \in 0..(IF ticks > 0 THEN 1 ELSE 0) :
    /\ now' = now + d
    /\ ticks' = ticks - d

\* ------------------------------------------------------------------ scan
RelUsed == Flatten(<<srcDir, Sl, <<"u", "s", "e", "d">>, TsExt>>)
RelMissing == Flatten(<<srcDir, Sl, <<"m", "i", "s", "s", "i", "n", "g">>, TsExt>>)

\* values of --entry; <<>> is the default
EntryChoices == { <<>>, <<RelUsed, RelMissing>>, <<RelMissing>> }

\* values of --confidence, in hundredths; 90 is the default
ConfidenceChoices == {90, 95, 100}

\* new Project({ tsConfigFilePath }): the files of tsconfig.json on disk
LoadProject(d) == [p \in { q \in ProjectPaths : d[q] # Absent } |-> d[p]]

\* project.getSourceFiles().filter(...): the files under srcDir
SourceFiles(loaded, dir) ==
  SelectPaths(ProjectOrder,
              { f \in loaded :
                  \/ Includes(f, Flatten(<<Sl, dir, Sl>>))
                  \/ Includes(f, Flatten(<<<<"\\">>, dir, <<"\\">>>>)) })

\* lines 78-103: the options are read, the project is loaded and the
\* traversal stack is filled with the entry files
ScanStart ==
  /\ pc = "idle"
  /\ scans < MaxScans
  /\ scans' = scans + 1
  /\ \E mongo \in BOOLEAN, entry \in EntryChoices, apply \in BOOLEAN,
        confidence \in ConfidenceChoices :
       \* without a URI the other options are never read
       /\ mongo \/ (entry = <<>> /\ ~ apply /\ confidence = 90)
       /\ NewProcess([cmd |-> "scan", mongo |-> mongo, entry |-> entry,
                      apply |-> apply, confidence |-> confidence])
       /\ IF ~ mongo
          THEN /\ pc' = "exited"
               /\ log' = [EmptyLog EXCEPT !.missingUri = TRUE]
               /\ conn' = "none"
               /\ project' = <<>>
               /\ files' = <<>>
               /\ stack' = <<>>
          ELSE /\ pc' = "reach"
               /\ log' = EmptyLog
               /\ conn' = "none"
               /\ project' = LoadProject(disk)
               /\ files' = SourceFiles(DOMAIN LoadProject(disk), srcDir)
               /\ stack' =
                    EntryFiles(DOMAIN LoadProject(disk),
                               IF Len(entry) # 0 THEN entry
                               ELSE defaultEntrypoints(
                                      SourceFiles(DOMAIN LoadProject(disk), srcDir),
                                      srcDir))
  /\ UNCHANGED <<disk, store, nextId, now, ticks>>

\* lines 104-114: one iteration of the traversal loop
ReachStep ==
  /\ pc = "reach"
  /\ stack # <<>>
  /\ LET sf == stack[Len(stack)]
         rest == SubSeq(stack, 1, Len(stack) - 1)
     IN IF AlreadyReached(reachable, norm(sf))
        THEN /\ stack' = rest
             /\ UNCHANGED <<reachable, adds>>
        ELSE /\ reachable' = reachable \cup {norm(sf)}
             /\ adds' = adds + 1
             /\ stack' = rest \o Pushes(sf, ImportSpecifiers(sf),
                                        reachable \cup {norm(sf)}, files)
  /\ UNCHANGED <<disk, store, nextId, now, ticks, scans, pc, opts, conn, project,
                 files, unreachable, unusedSymbols, cursor, ttl, archivedCount,
                 found, log>>

\* lines 117-190: the unreachable files and the symbol findings
ScanDetect ==
  /\ pc = "reach"
  /\ stack = <<>>
  /\ unreachable' = Unreachable(files, reachable)
  /\ unusedSymbols' = FindingsOf(SymbolScanFiles(files, reachable), DOMAIN project)
  /\ pc' = "connect"
  /\ UNCHANGED <<disk, store, nextId, now, ticks, scans, opts, conn, project, files,
                 stack, reachable, adds, cursor, ttl, archivedCount, found, log>>

\* lines 193-197: connect; a failed connect rejects and ends the command
ScanConnect ==
  /\ pc = "connect"
  /\ \E ok \in BOOLEAN :
       IF ok
       THEN /\ conn' = "open"
            /\ ttl' = now + TtlSeconds
            /\ cursor' = 1
            /\ pc' = "archiveFiles"
            /\ UNCHANGED log
       ELSE /\ pc' = "crashed"
            /\ log' = [log EXCEPT !.uncaught = "MongoError"]
            /\ UNCHANGED <<conn, ttl, cursor>>
  /\ UNCHANGED <<disk, store, nextId, now, ticks, scans, opts, project, files,
                 stack, reachable, adds, unreachable, unusedSymbols, archivedCount,
                 found>>

\* C5 mutant: the deletion is not guarded by --apply
RemoveAlways(d, sf, apply) == [d EXCEPT ![sf] = Absent]

\* fs.rmSync(path, { force: true }) under "if (opts.apply)"
RemoveIfApply(d, sf, apply) == IF apply THEN [d EXCEPT ![sf] = Absent] ELSE d

\* C3 mutant: the file is removed before its record is inserted
RemoveBeforeInsert(d, sf, apply) == RemoveIfApply(d, sf, apply)

\* the disk after insertOne has thrown: the throw leaves the loop before
\* line 219
DiskAfterFailedInsert(d, sf, apply) == d

\* u.file.saveSync() under "if (opts.apply)": the text in memory is
\* written to the path of the file
SaveIfApply(d, sf, text, apply) == IF apply THEN [d EXCEPT ![sf] = text] ELSE d

\* lines 202-223: one iteration of the file loop
ScanArchiveFile ==
  /\ pc = "archiveFiles"
  /\ cursor <= Len(unreachable)
  /\ LET sf == unreachable[cursor]
         item == FileItem(sf, project[sf], now, ttl)
     IN \E ok \in BOOLEAN :
          IF ok
          THEN /\ store' = store \cup {Stored(item, IdOf(nextId))}
               /\ nextId' = nextId + 1
               /\ Elapse
               /\ disk' = RemoveIfApply(disk, sf, opts.apply)
               /\ log' = [log EXCEPT
                            !.inserted = Append(@, IdOf(nextId)),
                            !.deleted = IF opts.apply THEN @ \cup {sf} ELSE @]
               /\ cursor' = cursor + 1
               /\ pc' = pc
          ELSE /\ pc' = "crashed"
               /\ disk' = DiskAfterFailedInsert(disk, sf, opts.apply)
               /\ log' = [log EXCEPT !.uncaught = "MongoError"]
               /\ UNCHANGED <<store, nextId, now, ticks, cursor>>
  /\ UNCHANGED <<scans, opts, conn, project, files, stack, reachable, adds,
                 unreachable, unusedSymbols, ttl, archivedCount, found>>

\* line 225: the file loop is over, the symbol loop starts
ScanFilesDone ==
  /\ pc = "archiveFiles"
  /\ cursor > Len(unreachable)
  /\ cursor' = 1
  /\ archivedCount' = 0
  /\ pc' = "archiveSymbols"
  /\ UNCHANGED <<disk, store, nextId, now, ticks, scans, opts, conn, project, files,
                 stack, reachable, adds, unreachable, unusedSymbols, ttl, found, log>>

\* lines 229-262: one iteration of the symbol loop
ScanArchiveSymbol ==
  /\ pc = "archiveSymbols"
  /\ cursor <= Len(unusedSymbols)
  /\ LET u == unusedSymbols[cursor]
         item == SymbolItem(u, now, ttl)
     IN IF BelowThreshold(u.confidence, opts.confidence)
        THEN /\ cursor' = cursor + 1
             /\ UNCHANGED <<disk, store, nextId, now, ticks, log, archivedCount, pc>>
        ELSE \E ok \in BOOLEAN :
               IF ok
               THEN /\ store' = store \cup {Stored(item, IdOf(nextId))}
                    /\ nextId' = nextId + 1
                    /\ Elapse
                    /\ disk' = SaveIfApply(disk, u.file, project[u.file], opts.apply)
                    /\ log' = [log EXCEPT
                                 !.inserted = Append(@, IdOf(nextId)),
                                 !.saved = IF opts.apply THEN @ \cup {u.file} ELSE @]
                    /\ archivedCount' = archivedCount + 1
                    /\ cursor' = cursor + 1
                    /\ pc' = pc
               ELSE /\ pc' = "crashed"
                    /\ log' = [log EXCEPT !.uncaught = "MongoError"]
                    /\ UNCHANGED <<disk, store, nextId, now, ticks, archivedCount,
                                   cursor>>
  /\ UNCHANGED <<scans, opts, conn, project, files, stack, reachable, adds,
                 unreachable, unusedSymbols, ttl, found>>

\* lines 264-272: close and report
ScanClose ==
  /\ pc = "archiveSymbols"
  /\ cursor > Len(unusedSymbols)
  /\ conn' = "closed"
  /\ log' = [log EXCEPT !.finished = TRUE]
  /\ pc' = "done"
  /\ UNCHANGED <<disk, store, nextId, now, ticks, scans, opts, project, files,
                 stack, reachable, adds, unreachable, unusedSymbols, cursor, ttl,
                 archivedCount, found>>

\* --------------------------------------------------------------- restore
\* the identifiers a caller may pass: the last one the store has assigned,
\* the next one (never assigned) and a string that is no identifier
IdChoices ==
  { IdOf(n) : n \in {nextId - 1, nextId} \ {0} } \cup {NonexistentId}

\* values of --output: none, or a path
OutputChoices == {Undefined, OutTs}

\* lines 275-282: the options are read and the client connects; a failed
\* connect rejects and ends the command
RestoreStart ==
  /\ pc = "idle"
  /\ \E mongo \in BOOLEAN, id \in IdChoices, output \in OutputChoices, ok \in BOOLEAN :
       \* without a URI, or a connection, the other options are never read
       /\ mongo \/ (id = NonexistentId /\ ok)
       /\ (mongo /\ ok) \/ output = Undefined
       /\ NewProcess([cmd |-> "restore", mongo |-> mongo, id |-> id,
                      output |-> output])
       /\ IF ~ mongo
          THEN /\ pc' = "exited"
               /\ conn' = "none"
               /\ log' = [EmptyLog EXCEPT !.missingUri = TRUE]
          ELSE /\ pc' = IF ok THEN "find" ELSE "crashed"
               /\ conn' = IF ok THEN "open" ELSE "none"
               /\ log' = [EmptyLog EXCEPT
                            !.uncaught = IF ok THEN "none" ELSE "MongoError"]
  /\ project' = <<>>
  /\ files' = <<>>
  /\ stack' = <<>>
  /\ UNCHANGED <<disk, store, nextId, now, ticks, scans>>

\* lines 284-289: the identifier is parsed and looked up
RestoreFind ==
  /\ pc = "find"
  /\ IF ObjectIdThrows(opts.id)
     THEN /\ pc' = "crashed"
          /\ log' = [log EXCEPT !.uncaught = "BSONError"]
          /\ UNCHANGED <<conn, found>>
     ELSE \E ok \in BOOLEAN :
            IF ~ ok
            THEN /\ pc' = "crashed"
                 /\ log' = [log EXCEPT !.uncaught = "MongoError"]
                 /\ UNCHANGED <<conn, found>>
            ELSE IF findOne(store, ObjectId(opts.id)) = {}
            THEN /\ log' = [log EXCEPT !.notFound = TRUE]
                 /\ conn' = "closed"
                 /\ pc' = "exited"
                 /\ UNCHANGED found
            ELSE /\ found' = <<CHOOSE r \in findOne(store, ObjectId(opts.id)) : TRUE>>
                 /\ pc' = "emit"
                 /\ UNCHANGED <<conn, log>>
  /\ UNCHANGED <<disk, store, nextId, now, ticks, scans, opts, project, files, stack,
                 reachable, adds, unreachable, unusedSymbols, cursor, ttl,
                 archivedCount>>

\* fs.writeFileSync(path.resolve(opts.output), content) under
\* "if (opts.output)"
WriteIfOutput(d, output, content) ==
  IF output # Undefined THEN [d EXCEPT ![output] = content] ELSE d

\* lines 291-307: decode, write or print, close
RestoreEmit ==
  /\ pc = "emit"
  /\ LET content == fromB64(found[1].content.base64)
     IN /\ disk' = WriteIfOutput(disk, opts.output, content)
        /\ log' = [log EXCEPT
                     !.restored = <<content>>,
                     !.written = IF opts.output # Undefined THEN {opts.output} ELSE {},
                     !.finished = TRUE]
  /\ conn' = "closed"
  /\ pc' = "done"
  /\ UNCHANGED <<store, nextId, now, ticks, scans, opts, project, files, stack,
                 reachable, adds, unreachable, unusedSymbols, cursor, ttl,
                 archivedCount, found>>

\* ------------------------------------------------------------------ list
\* values of --type, --repo and --limit; Null is an option not given, 50
\* the default limit
TypeChoices == {Null, "file"}
RepoChoices == {Null}
LimitChoices == {0, 1, 50}

\* filter.repo and filter.type are set only for options given
Matches(r, o) ==
  /\ o.repo = Null \/ r.repo = o.repo
  /\ o.type = Null \/ r.type = o.type

\* the number an identifier of IdOf ends with
HexValue(c) == CHOOSE v \in 0..15 : HexDigits[v + 1] = c
IdNumber(id) == HexValue(id[23]) * 16 + HexValue(id[24])

RECURSIVE SortNewestFirst(_)
\* .sort({ createdAt: -1 }): documents of equal createdAt come in the order
\* in which they were inserted
SortNewestFirst(records) ==
  IF records = {} THEN <<>>
  ELSE LET first == CHOOSE r \in records :
                      \A q \in records :
                        \/ q.createdAt < r.createdAt
                        \/ /\ q.createdAt = r.createdAt
                           /\ IdNumber(r._id) <= IdNumber(q._id)
       IN <<first>> \o SortNewestFirst(records \ {first})

\* .limit(n): a limit of 0 is no limit
Limit(seq, n) == IF n = 0 \/ n >= Len(seq) THEN seq ELSE SubSeq(seq, 1, n)

\* lines 311-318: the options are read and the client connects
ListStart ==
  /\ pc = "idle"
  /\ \E mongo \in BOOLEAN, type \in TypeChoices, r \in RepoChoices,
        limit \in LimitChoices, ok \in BOOLEAN :
       \* without a URI, or a connection, the other options are never read
       /\ (mongo /\ ok) \/ (type = Null /\ limit = 50)
       /\ mongo \/ ok
       /\ NewProcess([cmd |-> "list", mongo |-> mongo, repo |-> r, type |-> type,
                      limit |-> limit])
       /\ IF ~ mongo
          THEN /\ pc' = "exited"
               /\ conn' = "none"
               /\ log' = [EmptyLog EXCEPT !.missingUri = TRUE]
          ELSE /\ pc' = IF ok THEN "query" ELSE "crashed"
               /\ conn' = IF ok THEN "open" ELSE "none"
               /\ log' = [EmptyLog EXCEPT
                            !.uncaught = IF ok THEN "none" ELSE "MongoError"]
  /\ project' = <<>>
  /\ files' = <<>>
  /\ stack' = <<>>
  /\ UNCHANGED <<disk, store, nextId, now, ticks, scans>>

\* lines 320-339: query, print, close
ListQuery ==
  /\ pc = "query"
  /\ \E ok \in BOOLEAN :
       IF ok
       THEN /\ log' = [log EXCEPT
                         !.items = Limit(SortNewestFirst(
                                     { r \in store : Matches(r, opts) }), opts.limit),
                         !.listed = TRUE, !.finished = TRUE]
            /\ conn' = "closed"
            /\ pc' = "done"
       ELSE /\ pc' = "crashed"
            /\ log' = [log EXCEPT !.uncaught = "MongoError"]
            /\ UNCHANGED conn
  /\ UNCHANGED <<disk, store, nextId, now, ticks, scans, opts, project, files, stack,
                 reachable, adds, unreachable, unusedSymbols, cursor, ttl,
                 archivedCount, found>>

\* ------------------------------------------------------------- the store
\* the TTL index on expiresAt: once the clock has reached the expiry date of
\* a document, the store removes every document that has expired
Evict ==
  /\ pc = "idle"
  /\ \E r \in store :
       /\ r.expiresAt > now
       /\ now' = r.expiresAt
       /\ store' = { q \in store : q.expiresAt > r.expiresAt }
  /\ UNCHANGED <<disk, nextId, ticks, scans, pc, opts, conn, project, files, stack,
                 reachable, adds, unreachable, unusedSymbols, cursor, ttl,
                 archivedCount, found, log>>

\* the process of a command that has ended is gone; the disk, the store and
\* the clock stay
ProcessEnd ==
  /\ pc \in Ended
  /\ pc' = "idle"
  /\ NewProcess(NoOpts)
  /\ conn' = "none"
  /\ project' = <<>>
  /\ files' = <<>>
  /\ stack' = <<>>
  /\ log' = EmptyLog
  /\ UNCHANGED <<disk, store, nextId, now, ticks, scans>>

Next ==
  \/ ScanStart
  \/ ReachStep
  \/ ScanDetect
  \/ ScanConnect
  \/ ScanArchiveFile
  \/ ScanFilesDone
  \/ ScanArchiveSymbol
  \/ ScanClose
  \/ RestoreStart
  \/ RestoreFind
  \/ RestoreEmit
  \/ ListStart
  \/ ListQuery
  \/ Evict
  \/ ProcessEnd

Spec == Init /\ [][Next]_vars

SpecSlowStore == InitSlowStore /\ [][Next]_vars

\* ReachStep can take a step exactly when its guard holds: the step pops the
\* stack, so it always changes the state
ReachStepEnabled == pc = "reach" /\ stack # <<>>

\* the traversal and the detection that follows it are one synchronous
\* stretch of scanCommand: nothing suspends them, so they keep running.
\* The second conjunct is WF_vars(ReachStep) with ENABLED <<ReachStep>>_vars
\* written as ReachStepEnabled
SpecTraversal ==
  /\ Init /\ [][Next]_vars
  /\ WF_vars(ScanDetect)
  /\ ([]<>(~ ReachStepEnabled) \/ []<><<ReachStep>>_vars)

\* ================================================================ claims
\* the scan has computed its reachable set and its findings
Traversed ==
  /\ opts.cmd = "scan"
  /\ pc \in {"connect", "archiveFiles", "archiveSymbols", "done", "crashed"}

\* the records the running scan has inserted
InsertedByScan == { r \in store : r._id \in Range(log.inserted) }

\* the loaded files that are no longer on disk
DeletedByScan == { f \in DOMAIN project : disk[f] = Absent }

\* ---- C1
\* the suffixes a relative import specifier may be completed with
ImportSuffixes ==
  { <<>>, <<".", "t", "s">>, <<".", "t", "s", "x">>, <<".", "j", "s">>,
    <<".", "j", "s", "x">>, <<"/", "i", "n", "d", "e", "x", ".", "t", "s">>,
    <<"/", "i", "n", "d", "e", "x", ".", "t", "s", "x">> }

\* the path a relative specifier points at from a file, before any suffix:
\* "./x" is x in the directory of the file, "../x" is x in its parent
RelativeTarget(from, spec) ==
  IF StartsWith(spec, <<".", "/">>)
  THEN Flatten(<<DirPath(from), Sl, SliceFrom(spec, 2)>>)
  ELSE IF StartsWith(spec, <<".", ".", "/">>)
  THEN Flatten(<<DirPath(DirPath(from)), Sl, SliceFrom(spec, 3)>>)
  ELSE Undefined

\* the specifier, in file from, names the loaded unit f
NamesUnit(from, spec, f) ==
  /\ RelativeTarget(from, spec) # Undefined
  /\ \E suf \in ImportSuffixes : RelativeTarget(from, spec) \o suf = f

\* the entry files the scan resolved
ResolvedEntries ==
  Range(EntryFiles(DOMAIN project,
                   IF Len(opts.entry) # 0 THEN opts.entry
                   ELSE defaultEntrypoints(files, srcDir)))

\* C1: once the traversal is over, the reachable set holds every resolved
\* entrypoint and is closed under import resolution (a relative specifier
\* of a reachable unit that names a loaded unit makes that unit reachable);
\* so with the default entrypoint src/index.ts, which imports ./used, the
\* unreachable output is exactly {src/dead.ts}.
C1_ReachableClosed ==
  Traversed =>
    /\ \A e \in ResolvedEntries : norm(e) \in reachable
    /\ \A f \in Range(files), g \in Range(files) :
         (/\ norm(f) \in reachable
          /\ \E k \in 1..Len(ImportSpecifiers(f)) :
               NamesUnit(f, ImportSpecifiers(f)[k], g))
         => norm(g) \in reachable
    /\ (opts.entry = <<>> /\ {IndexTs, UsedTs, DeadTs} \subseteq Range(files))
         => Range(unreachable) = {DeadTs}

\* ---- C2
\* C2: every record a scan has persisted, file records included, has a
\* confidence at or above the threshold of that scan.
C2_PersistedAboveThreshold ==
  opts.cmd = "scan" => \A r \in InsertedByScan : r.confidence >= opts.confidence

\* ---- C3
\* C3: in every state of a scan, also after a failed insert has ended it,
\* each loaded file that is gone from disk has a persisted file record of
\* this scan that holds its full text.
C3_DeletedOnlyAfterArchived ==
  opts.cmd = "scan" =>
    \A f \in DeletedByScan :
      \E r \in InsertedByScan :
        /\ r.type = "file"
        /\ r.path = rel(f, srcDir)
        /\ r.content.base64 = toB64(project[f])

\* an apply-mode scan that deleted a file and was then ended by a failing
\* insert
C3_Witness ==
  /\ opts.cmd = "scan"
  /\ opts.apply
  /\ pc = "crashed"
  /\ log.uncaught = "MongoError"
  /\ DeletedByScan # {}

\* ---- C4
\* C4: a step of the symbol loop leaves the disk as it was, so a file the
\* scan deleted as unreachable is still absent when the scan has finished.
C4_SymbolStepKeepsDisk ==
  /\ (opts.cmd = "scan" /\ pc = "archiveSymbols") =>
       \A f \in DOMAIN project : f \in log.deleted => disk[f] = Absent
  /\ (opts.cmd = "scan" /\ pc = "done") =>
       \A f \in log.deleted : disk[f] = Absent

\* ---- C5
\* C5: no step of a scan that runs without --apply changes the disk, and
\* the only change such a step makes to the store is to add records.
C5_ReportModeKeepsDisk ==
  [][(opts'.cmd = "scan" /\ ~ opts'.apply) =>
       (disk' = disk /\ store \subseteq store')]_vars

\* a report-mode scan that found unreachable files and finished
C5_Witness ==
  /\ opts.cmd = "scan"
  /\ ~ opts.apply
  /\ pc = "done"
  /\ Len(unreachable) > 0
  /\ Len(log.inserted) > Len(unreachable)

\* ---- C6
\* C6: every symbol finding of a scan is a declaration whose owning unit is
\* in the reachable set.
C6_SymbolsOnlyInReachable ==
  Traversed =>
    \A k \in 1..Len(unusedSymbols) :
      norm(Declarations[unusedSymbols[k].node].owner) \in reachable

\* ---- C7
\* C7: no command ends with its store connection still open.
C7_ConnectionClosedAtEnd == pc \in Ended => conn # "open"

\* ---- C8
\* C8: a restore whose id resolves to no stored record, also an id that is
\* no well-formed identifier, and whose store calls succeed, ends in the
\* NotFound outcome: the message is reported, the process exits with code
\* 1, no file is written and no exception is left uncaught.
C8_RestoreNotFound ==
  (/\ opts.cmd = "restore"
   /\ pc \in Ended
   /\ opts.mongo
   /\ log.uncaught # "MongoError"
   /\ ObjectIdThrows(opts.id) \/ findOne(store, ObjectId(opts.id)) = {})
  => (/\ pc = "exited"
      /\ log.notFound
      /\ log.written = {}
      /\ log.uncaught = "none")

\* ---- C9
\* the text a record was made from: the file at its path, or the
\* declaration of its name
SourceTextOf(r) ==
  IF r.type = "file" THEN OriginalText(Flatten(<<Cwd, Sl, r.path>>))
  ELSE Declarations[CHOOSE k \in 1..Len(Declarations) :
                      Declarations[k].name = r.name].text

\* C9: every restore that finds a record decodes the text the record was
\* made from, each time it is run, writes exactly that text when given an
\* output path, and leaves the record in the store as it found it.
C9_RoundTrip ==
  (opts.cmd = "restore" /\ pc = "done") =>
    /\ log.restored = <<SourceTextOf(found[1])>>
    /\ found[1] \in store
    /\ opts.output # Undefined => disk[opts.output] = SourceTextOf(found[1])

\* a restore, written to a file, of a text with a two-byte character and a
\* surrogate pair
C9_Witness ==
  /\ opts.cmd = "restore"
  /\ pc = "done"
  /\ opts.output = OutTs
  /\ log.restored = <<OriginalText(DeadTs)>>
  /\ found[1].type = "file"

\* ---- C10
\* the keep-exempt patterns
ExemptPatterns ==
  { <<".", "d", ".", "t", "s">>,
    <<".", "t", "y", "p", "e", "s", ".", "t", "s">>,
    <<".", "s", "t", "o", "r", "i", "e", "s", ".", "t", "s">>,
    <<".", "s", "t", "o", "r", "i", "e", "s", ".", "t", "s", "x">>,
    <<".", "t", "e", "s", "t", ".", "t", "s">>,
    <<".", "t", "e", "s", "t", ".", "t", "s", "x">>,
    <<"_", "_", "m", "o", "c", "k", "s", "_", "_">>,
    <<".", "c", "o", "n", "f", "i", "g", ".", "t", "s">>,
    <<".", "c", "o", "n", "f", "i", "g", ".", "j", "s">> }

KeepExempt(p) == \E pat \in ExemptPatterns : Includes(p, pat)

\* C10: a loaded unit whose path matches a keep-exempt pattern is never in
\* the unreachable output, never archived as an unreachable file by the
\* scan and never deleted, reachable or not.
C10_KeepExemptNeverUnreachable ==
  opts.cmd = "scan" =>
    \A f \in DOMAIN project :
      KeepExempt(f) =>
        /\ f \notin Range(unreachable)
        /\ disk[f] # Absent
        /\ ~ \E r \in InsertedByScan : r.type = "file" /\ r.path = rel(f, srcDir)

\* an apply-mode scan from which no entrypoint resolved has deleted files
\* and finished, with the keep-exempt files loaded and not reachable
C10_Witness ==
  /\ opts.cmd = "scan"
  /\ opts.apply
  /\ pc = "done"
  /\ reachable = {}
  /\ DeletedByScan # {}
  /\ {ATestTs, TypesDTs, MockTs, StoriesTsx, ConfigJs} \subseteq DOMAIN project

\* ---- C11
\* C11: a list that returned has printed at most limit records, each of
\* them matching the repo/type filter, in strictly descending createdAt
\* order.
C11_ListLimitedSorted ==
  (opts.cmd = "list" /\ log.listed) =>
    /\ Len(log.items) <= opts.limit
    /\ \A k \in 1..Len(log.items) : Matches(log.items[k], opts)
    /\ \A k \in 1..(Len(log.items) - 1) :
         log.items[k].createdAt > log.items[k + 1].createdAt

\* ---- C12
\* the declarations the usage detector looks at: a function, class,
\* variable or method declared in a source file of the scan
InScope(k) ==
  /\ Declarations[k].owner \in Range(files)
  /\ Declarations[k].kind \in {"function", "class", "variable", "method"}

\* the detector has reported the declaration, whatever the confidence
Reported(k) == \E j \in 1..Len(unusedSymbols) : unusedSymbols[j].node = k

C13_TraversalTerminates ==
  /\ [](opts.cmd = "scan" => adds = Cardinality(reachable))
  /\ (pc = "reach") ~> (pc = "connect")

\* a traversal has ended after going through the self-import of .x.js, the
\* cycle .x.js -> .y.d.ts -> .x.js and the two imports of index.ts that
\* both resolve to .x.js
C13_Witness ==
  /\ opts.cmd = "scan"
  /\ pc = "connect"
  /\ {norm(IndexTs), norm(HiddenJs), norm(HiddenDTs)} \subseteq reachable
  /\ adds = 3

\* ---- C14
\* the entrypoint paths of the scan: those given, or else the conventional
\* candidates
EntryPaths ==
  IF opts.entry # <<>> THEN Range(opts.entry) ELSE Range(EntryCandidates(srcDir))

\* the loaded units the entrypoint paths name, from the working directory
LoadedEntries ==
  { f \in DOMAIN project : \E e \in EntryPaths : f = Flatten(<<Cwd, Sl, e>>) }

\* the source files of the scan that are not keep-exempt
NonExemptFiles == { f \in Range(files) : ~ KeepExempt(f) }

C15_ExpiresAtFromCreatedAt ==
  \A r \in store : r.expiresAt = r.createdAt + TtlSeconds

\* ---- C16
\* the symbol records the running scan has persisted for a declaration
RecordsOf(k) ==
  { r \in InsertedByScan :
      /\ r.type = Declarations[k].kind
      /\ r.name = Declarations[k].name
      /\ r.content.base64 = toB64(Declarations[k].text) }

\* C16: a scan persists at most one symbol record for a declaration, and
\* the path and language of that record are those of the file that holds
\* the declaration, also for a declaration that another file re-exports.
C16_OneRecordPerDeclaration ==
  opts.cmd = "scan" =>
    \A k \in 1..Len(Declarations) :
      /\ Cardinality(RecordsOf(k)) <= 1
      /\ \A r \in RecordsOf(k) :
           /\ r.path = rel(Declarations[k].owner, srcDir)
           /\ r.language = getLanguage(Declarations[k].owner)

====
